---- MODULE Spec2Model ----
(***************************************************************************)
(* Model of src/verify.py: fast_3x3_rank23, a fixed bilinear scheme for    *)
(* the 3x3 matrix product (23 scalar products, 60 additions), and of the   *)
(* driver loop that calls it.  The kernel is a straight-line program; each *)
(* assignment of the source is one expression tree below, and the machine  *)
(* executes the statements one at a time over a frame of local names.      *)
(* Scalars are duck-typed in the source; the model runs the same program   *)
(* over the integers, over the residues mod 7 and over 2x2 integer blocks. *)
(* numpy's int64 width is not modelled: with entries in -9..9 no           *)
(* intermediate value leaves the 64-bit range.                             *)
(***************************************************************************)
EXTENDS Integers, Sequences, FiniteSets, TLC

\* ---- bounds of the model ------------------------------------------------
\* largest absolute value of an entry of the enumerated sparse inputs
MaxVal == 1
\* largest number of non-zero entries of an enumerated sparse A / sparse B
MaxNonZeroA == 1
MaxNonZeroB == 1
\* number of kernel calls the driver loop makes in SpecCalls
MaxCalls == 3
\* number of products that may have run ahead of program order in SpecSched
MaxAhead == 1
\* modulus of the modular scalar type
Modulus == 7

VARIABLES
    A,       \* first argument of the current call (array: sequence of rows)
    B,       \* second argument of the current call
    ring,    \* scalar type of the entries: "int", "mod" or "mat2"
    env,     \* the frame: local name -> value, for the names bound so far
    pc,      \* index in Prog of the next statement
    status,  \* "running", "returned" or "raised"
    exc,     \* the exception raised, "" if none
    result,  \* the returned array, <<>> before the return
    nMul,    \* scalar multiplications performed by the current call
    nAdd,    \* binary scalar additions / subtractions performed by the call
    last,    \* name assigned by the statement executed last ("" if none)
    reads,   \* names read by the statement executed last
    calls,   \* number of kernel calls started
    first    \* <<A, B, result>> of the first call that returned, else <<>>

vars == << A, B, ring, env, pc, status, exc, result, nMul, nAdd, last, reads,
           calls, first >>

\* ---- expression trees ---------------------------------------------------
V(n) == [op |-> "var", name |-> n]
Neg(x) == [op |-> "neg", x |-> x]
Add(l, r) == [op |-> "add", l |-> l, r |-> r]
Sub(l, r) == [op |-> "sub", l |-> l, r |-> r]
Mul(l, r) == [op |-> "mul", l |-> l, r |-> r]

\* ---- the assignments of fast_3x3_rank23, one definition per line ---------
\* line 22: t0 = A0 - A3
t0 == Sub(V("A0"), V("A3"))

\* line 23: t1 = A4 + A5
t1 == Add(V("A4"), V("A5"))

\* line 24: t2 = A6 + A8
t2 == Add(V("A6"), V("A8"))

\* line 25: t3 = A1 + A2
t3 == Add(V("A1"), V("A2"))

\* t4 written out without reusing t1: A7 - A4 - A5
t4_Unshared == Sub(Sub(V("A7"), V("A4")), V("A5"))

\* line 26: t4 = A7 - t1
t4 == Sub(V("A7"), V("t1"))

\* line 27: t5 = t0 + t2
t5 == Add(V("t0"), V("t2"))

\* line 29: u0 = B0 - B2
u0 == Sub(V("B0"), V("B2"))

\* line 30: u1 = B4 - B7
u1 == Sub(V("B4"), V("B7"))

\* line 31: u2 = B1 + u0
u2 == Add(V("B1"), V("u0"))

\* line 32: u3 = B5 - B8
u3 == Sub(V("B5"), V("B8"))

\* line 33: u4 = B6 + u3
u4 == Add(V("B6"), V("u3"))

\* u5 written out without reusing u2: u1 + (B1 + u0)
u5_Inlined == Add(V("u1"), Add(V("B1"), V("u0")))

\* line 34: u5 = u1 + u2
u5 == Add(V("u1"), V("u2"))

\* line 37: M0 = (-t3) * (-B7)
M0 == Mul(Neg(V("t3")), Neg(V("B7")))

\* line 38: M1 = (-A3 + A4 - A7) * (-u1)
M1 == Mul(Sub(Add(Neg(V("A3")), V("A4")), V("A7")), Neg(V("u1")))

\* line 39: M2 = (A1 - A3) * u5
M2 == Mul(Sub(V("A1"), V("A3")), V("u5"))

\* M3 with the negation of the right factor dropped
M3_LostNegation == Mul(Neg(V("t0")), V("u0"))

\* line 40: M3 = (-t0) * (-u0)
M3 == Mul(Neg(V("t0")), Neg(V("u0")))

\* line 41: M4 = (-A5) * u3
M4 == Mul(Neg(V("A5")), V("u3"))

\* line 42: M5 = (A8 + t4) * B7
M5 == Mul(Add(V("A8"), V("t4")), V("B7"))

\* M6 with the B8 term of the right factor dropped
M6_DroppedTerm == Mul(Neg(V("A8")), Add(Neg(V("B2")), V("B7")))

\* line 43: M6 = (-A8) * (-B2 + B7 + B8)
M6 == Mul(Neg(V("A8")), Add(Add(Neg(V("B2")), V("B7")), V("B8")))

\* line 44: M7 = t4 * (B5 + B7)
M7 == Mul(V("t4"), Add(V("B5"), V("B7")))

\* M8 with its two factors exchanged
M8_Swapped == Mul(Neg(V("B3")), Neg(V("A7")))

\* line 45: M8 = (-A7) * (-B3)
M8 == Mul(Neg(V("A7")), Neg(V("B3")))

\* line 46: M9 = (A1 + A5) * (-u4)
M9 == Mul(Add(V("A1"), V("A5")), Neg(V("u4")))

\* line 47: M10 = (-t5) * (B2 - B6)
M10 == Mul(Neg(V("t5")), Sub(V("B2"), V("B6")))

\* line 48: M11 = (-A6) * B1
M11 == Mul(Neg(V("A6")), V("B1"))

\* line 49: M12 = (A2 - A5 + t5) * (-B6)
M12 == Mul(Add(Sub(V("A2"), V("A5")), V("t5")), Neg(V("B6")))

\* line 50: M13 = (-A0 + A1) * u2
M13 == Mul(Add(Neg(V("A0")), V("A1")), V("u2"))

\* M14 with the product M2 in place of the entry B2
M14_ReadsProduct == Mul(Neg(V("A3")), V("M2"))

\* line 51: M14 = (-A3) * B2
M14 == Mul(Neg(V("A3")), V("B2"))

\* line 52: M15 = (A6 + t0) * (B0 - B6)
M15 == Mul(Add(V("A6"), V("t0")), Sub(V("B0"), V("B6")))

\* line 53: M16 = A7 * (B4 + B5)
M16 == Mul(V("A7"), Add(V("B4"), V("B5")))

\* line 54: M17 = t3 * (-B6 + B8)
M17 == Mul(V("t3"), Add(Neg(V("B6")), V("B8")))

\* line 55: M18 = (-t2) * B2
M18 == Mul(Neg(V("t2")), V("B2"))

\* line 56: M19 = (-A1) * (-B3 + u4 - u5)
M19 == Mul(Neg(V("A1")), Sub(Add(Neg(V("B3")), V("u4")), V("u5")))

\* line 57: M20 = (-A1 + A4) * B3
M20 == Mul(Add(Neg(V("A1")), V("A4")), V("B3"))

\* line 58: M21 = (-t1) * (-B5)
M21 == Mul(Neg(V("t1")), Neg(V("B5")))

\* line 59: M22 = A3 * (B1 + u1)
M22 == Mul(V("A3"), Add(V("B1"), V("u1")))

\* line 62: v0 = M4 - M14
v0 == Sub(V("M4"), V("M14"))

\* line 63: v1 = M2 + M22
v1 == Add(V("M2"), V("M22"))

\* line 64: v2 = M7 + M21
v2 == Add(V("M7"), V("M21"))

\* v3 reading v4, which is assigned after it, in place of v0
v3_ReadsLater == Sub(V("M9"), V("v4"))

\* line 65: v3 = M9 - v0
v3 == Sub(V("M9"), V("v0"))

\* line 66: v4 = M10 - M18
v4 == Sub(V("M10"), V("M18"))

\* line 67: v5 = M3 - v1
v5 == Sub(V("M3"), V("v1"))

\* line 68: v6 = M5 - v2
v6 == Sub(V("M5"), V("v2"))

\* line 69: v7 = M12 + v3
v7 == Add(V("M12"), V("v3"))

\* line 70: v8 = v4 + v7
v8 == Add(V("v4"), V("v7"))

\* line 73: C0 = M19 + v5 - v8
C0 == Sub(Add(V("M19"), V("v5")), V("v8"))

\* line 74: C1 = M0 - M13 - v5
C1 == Sub(Sub(V("M0"), V("M13")), V("v5"))

\* line 75: C2 = M17 - v8
C2 == Sub(V("M17"), V("v8"))

\* line 76: C3 = M19 + M20 - v1 - v3
C3 == Sub(Sub(Add(V("M19"), V("M20")), V("v1")), V("v3"))

\* line 77: C4 = -M1 + M16 + M22 - v2
C4 == Sub(Add(Add(Neg(V("M1")), V("M16")), V("M22")), V("v2"))

\* C5 with the sign of v0 flipped
C5_SignFlipped == Sub(V("M21"), V("v0"))

\* line 78: C5 = M21 + v0
C5 == Add(V("M21"), V("v0"))

\* line 79: C6 = -M3 + M8 + M15 + v4
C6 == Add(Add(Add(Neg(V("M3")), V("M8")), V("M15")), V("v4"))

\* line 80: C7 = -M11 + M16 + v6
C7 == Add(Add(Neg(V("M11")), V("M16")), V("v6"))

\* line 81: C8 = -M6 - M18 - v6
C8 == Sub(Sub(Neg(V("M6")), V("M18")), V("v6"))


\* ---- the program ---------------------------------------------------------
ANames == << "A0", "A1", "A2", "A3", "A4", "A5", "A6", "A7", "A8" >>
BNames == << "B0", "B1", "B2", "B3", "B4", "B5", "B6", "B7", "B8" >>
CNames == << "C0", "C1", "C2", "C3", "C4", "C5", "C6", "C7", "C8" >>

Asg(n, e) == [kind |-> "assign", name |-> n, expr |-> e]
UnpackA == [kind |-> "unpack", names |-> ANames, src |-> "A"]
UnpackB == [kind |-> "unpack", names |-> BNames, src |-> "B"]
Ret == [kind |-> "return", names |-> CNames]

PreAddsA ==
    << Asg("t0", t0), Asg("t1", t1), Asg("t2", t2),
       Asg("t3", t3), Asg("t4", t4), Asg("t5", t5) >>
PreAddsB ==
    << Asg("u0", u0), Asg("u1", u1), Asg("u2", u2),
       Asg("u3", u3), Asg("u4", u4), Asg("u5", u5) >>
Products ==
    << Asg("M0", M0), Asg("M1", M1), Asg("M2", M2),
       Asg("M3", M3), Asg("M4", M4), Asg("M5", M5),
       Asg("M6", M6), Asg("M7", M7), Asg("M8", M8),
       Asg("M9", M9), Asg("M10", M10), Asg("M11", M11),
       Asg("M12", M12), Asg("M13", M13), Asg("M14", M14),
       Asg("M15", M15), Asg("M16", M16), Asg("M17", M17),
       Asg("M18", M18), Asg("M19", M19), Asg("M20", M20),
       Asg("M21", M21), Asg("M22", M22) >>
Aggregates ==
    << Asg("v0", v0), Asg("v1", v1), Asg("v2", v2),
       Asg("v3", v3), Asg("v4", v4), Asg("v5", v5),
       Asg("v6", v6), Asg("v7", v7), Asg("v8", v8) >>
Outputs ==
    << Asg("C0", C0), Asg("C1", C1), Asg("C2", C2),
       Asg("C3", C3), Asg("C4", C4), Asg("C5", C5),
       Asg("C6", C6), Asg("C7", C7), Asg("C8", C8) >>

\* the program with B unpacked only after the pre-additions of A
Prog_LateUnpackB ==
    << UnpackA >> \o PreAddsA \o << UnpackB >> \o PreAddsB \o Products
        \o Aggregates \o Outputs \o << Ret >>

Prog ==
    << UnpackA, UnpackB >> \o PreAddsA \o PreAddsB \o Products
        \o Aggregates \o Outputs \o << Ret >>

\* ---- scalar arithmetic of the three scalar types -------------------------
RAdd(r, x, y) ==
    CASE r = "int" -> x + y
      [] r = "mod" -> (x + y) % Modulus
      [] r = "mat2" -> << x[1] + y[1], x[2] + y[2], x[3] + y[3], x[4] + y[4] >>

RNeg(r, x) ==
    CASE r = "int" -> 0 - x
      [] r = "mod" -> (Modulus - x) % Modulus
      [] r = "mat2" -> << 0 - x[1], 0 - x[2], 0 - x[3], 0 - x[4] >>

RSub(r, x, y) == RAdd(r, x, RNeg(r, y))

\* a 2x2 block << p, q, s, t >> is the matrix with rows (p q) and (s t)
RMul(r, x, y) ==
    CASE r = "int" -> x * y
      [] r = "mod" -> (x * y) % Modulus
      [] r = "mat2" -> << x[1] * y[1] + x[2] * y[3], x[1] * y[2] + x[2] * y[4],
                          x[3] * y[1] + x[4] * y[3], x[3] * y[2] + x[4] * y[4] >>

\* ---- evaluation of an expression in a frame ------------------------------
RECURSIVE Eval(_, _, _)
Eval(e, f, r) ==
    CASE e.op = "var" -> f[e.name]
      [] e.op = "neg" -> RNeg(r, Eval(e.x, f, r))
      [] e.op = "add" -> RAdd(r, Eval(e.l, f, r), Eval(e.r, f, r))
      [] e.op = "sub" -> RSub(r, Eval(e.l, f, r), Eval(e.r, f, r))
      [] e.op = "mul" -> RMul(r, Eval(e.l, f, r), Eval(e.r, f, r))

\* the names an expression reads
RECURSIVE Reads(_)
Reads(e) ==
    CASE e.op = "var" -> {e.name}
      [] e.op = "neg" -> Reads(e.x)
      [] OTHER -> Reads(e.l) \cup Reads(e.r)

\* the scalar multiplications an expression performs
RECURSIVE CountMul(_)
CountMul(e) ==
    CASE e.op = "var" -> 0
      [] e.op = "neg" -> CountMul(e.x)
      [] e.op = "mul" -> 1 + CountMul(e.l) + CountMul(e.r)
      [] OTHER -> CountMul(e.l) + CountMul(e.r)

\* the binary additions and subtractions an expression performs
RECURSIVE CountAdd(_)
CountAdd(e) ==
    CASE e.op = "var" -> 0
      [] e.op = "neg" -> CountAdd(e.x)
      [] e.op = "mul" -> CountAdd(e.l) + CountAdd(e.r)
      [] OTHER -> 1 + CountAdd(e.l) + CountAdd(e.r)

\* ---- arrays ---------------------------------------------------------------
\* ndarray.ravel(): the entries of an array of rows, row after row
Ravel(X) ==
    IF Len(X) = 0 THEN << >>
    ELSE LET c == Len(X[1])
         IN  [k \in 1..(Len(X) * c) |-> X[((k - 1) \div c) + 1][((k - 1) % c) + 1]]

\* ndarray.reshape(rows, cols) of a flat array
Reshape(flat, rows, cols) ==
    [i \in 1..rows |-> [j \in 1..cols |-> flat[cols * (i - 1) + j]]]

\* the reference product A @ B of two 3x3 arrays, row by column
MatMul(X, Y, r) ==
    [i \in 1..3 |-> [j \in 1..3 |->
        RAdd(r, RAdd(r, RMul(r, X[i][1], Y[1][j]), RMul(r, X[i][2], Y[2][j])),
             RMul(r, X[i][3], Y[3][j]))]]

\* ---- inputs ---------------------------------------------------------------
Zero9 == [k \in 1..9 |-> 0]
NonZeroVals == ((0 - MaxVal)..MaxVal) \ {0}

\* the flat 9-entry sequences with at most n non-zero entries
RECURSIVE Sparse(_)
Sparse(n) ==
    IF n = 0 THEN {Zero9}
    ELSE LET S == Sparse(n - 1)
         IN  S \cup {[m EXCEPT ![i] = x] : m \in S, i \in 1..9, x \in NonZeroVals}

Identity == << <<1, 0, 0>>, <<0, 1, 0>>, <<0, 0, 1>> >>
Seq19 == << <<1, 2, 3>>, <<4, 5, 6>>, <<7, 8, 9>> >>
Ones == << <<1, 1, 1>>, <<1, 1, 1>>, <<1, 1, 1>> >>
Scenarios == {Identity, Seq19, Ones}

\* arrays that are not 3x3: 8 entries, 10 entries, and 9 entries in one row
OddShapes ==
    { << <<1, 2, 3, 4>>, <<5, 6, 7, 8>> >>,
      << <<1, 2, 3, 4, 5>>, <<6, 7, 8, 9, 10>> >>,
      << <<1, 2, 3, 4, 5, 6, 7, 8, 9>> >> }

MatsA == {Reshape(m, 3, 3) : m \in Sparse(MaxNonZeroA)} \cup Scenarios \cup OddShapes
MatsB == {Reshape(m, 3, 3) : m \in Sparse(MaxNonZeroB)} \cup Scenarios \cup OddShapes
CallMats == Scenarios \cup {Reshape(Zero9, 3, 3)}

Rings == {"int", "mod", "mat2"}
\* two 2x2 blocks that do not commute
Blocks == { <<0, 1, 0, 0>>, <<0, 0, 1, 0>> }
Units(r) == IF r = "mat2" THEN Blocks ELSE {1}

\* the scalar of type r that stands for the integer a (times the unit g)
Scalar(r, a, g) ==
    CASE r = "int" -> a
      [] r = "mod" -> a % Modulus
      [] r = "mat2" -> << a * g[1], a * g[2], a * g[3], a * g[4] >>

Lift(X, r, g) == [i \in 1..Len(X) |-> [j \in 1..Len(X[i]) |-> Scalar(r, X[i][j], g)]]

IsShape33(X) == Len(X) = 3 /\ \A i \in 1..3 : Len(X[i]) = 3

\* ---- the machine ------------------------------------------------------------
NoFrame == [n \in {} |-> 0]

Enter(X, Y, r, c, f) ==
    /\ A = X
    /\ B = Y
    /\ ring = r
    /\ env = NoFrame
    /\ pc = 1
    /\ status = "running"
    /\ exc = ""
    /\ result = << >>
    /\ nMul = 0
    /\ nAdd = 0
    /\ last = ""
    /\ reads = {}
    /\ calls = c
    /\ first = f

Init ==
    \E X \in MatsA, Y \in MatsB, r \in Rings :
        \E g \in Units(r), h \in Units(r) :
            Enter(Lift(X, r, g), Lift(Y, r, h), r, 1, << >>)

\* A0,...,A8 = A.ravel()  and  B0,...,B8 = B.ravel()
Unpack ==
    /\ status = "running"
    /\ Prog[pc].kind = "unpack"
    /\ LET flat == Ravel(IF Prog[pc].src = "A" THEN A ELSE B)
           names == Prog[pc].names
       IN  IF Len(flat) = Len(names)
           THEN /\ env' = [n \in {names[k] : k \in 1..Len(names)} |->
                              flat[CHOOSE k \in 1..Len(names) : names[k] = n]] @@ env
                /\ pc' = pc + 1
                /\ UNCHANGED << status, exc >>
           ELSE /\ status' = "raised"
                /\ exc' = "ValueError"
                /\ UNCHANGED << env, pc >>
    /\ last' = ""
    /\ reads' = {}
    /\ UNCHANGED << A, B, ring, result, nMul, nAdd, calls, first >>

\* the first statement at or after k whose name is not bound in frame f
RECURSIVE NextUnbound(_, _)
NextUnbound(f, k) ==
    IF k <= Len(Prog) /\ Prog[k].kind = "assign" /\ Prog[k].name \in DOMAIN f
    THEN NextUnbound(f, k + 1)
    ELSE k

\* statement k, an assignment  name = expr , is executed
Exec(k) ==
    LET s == Prog[k]
    IN  /\ last' = s.name
        /\ reads' = Reads(s.expr)
        /\ IF Reads(s.expr) \subseteq DOMAIN env
           THEN /\ env' = (s.name :> Eval(s.expr, env, ring)) @@ env
                /\ nMul' = nMul + CountMul(s.expr)
                /\ nAdd' = nAdd + CountAdd(s.expr)
                /\ pc' = IF k = pc THEN NextUnbound(env', pc + 1) ELSE pc
                /\ UNCHANGED << status, exc >>
           ELSE /\ status' = "raised"
                /\ exc' = "UnboundLocalError"
                /\ UNCHANGED << env, nMul, nAdd, pc >>
        /\ UNCHANGED << A, B, ring, result, calls, first >>

\* the next assignment in program order
Assign ==
    /\ status = "running"
    /\ Prog[pc].kind = "assign"
    /\ Exec(pc)

\* the return that also stores the result into the argument A
Return_InPlace ==
    /\ status = "running"
    /\ Prog[pc].kind = "return"
    /\ LET names == Prog[pc].names
       IN  IF {names[k] : k \in 1..Len(names)} \subseteq DOMAIN env
           THEN /\ result' = Reshape([k \in 1..Len(names) |-> env[names[k]]], 3, 3)
                /\ status' = "returned"
                /\ exc' = ""
                /\ first' = IF first = << >> THEN << A, B, result' >> ELSE first
           ELSE /\ status' = "raised"
                /\ exc' = "UnboundLocalError"
                /\ UNCHANGED << result, first >>
    /\ last' = ""
    /\ reads' = {}
    /\ A' = IF status' = "returned" THEN result' ELSE A
    /\ UNCHANGED << B, ring, env, pc, nMul, nAdd, calls >>

\* return np.array([C0, ..., C8]).reshape(3, 3)
Return ==
    /\ status = "running"
    /\ Prog[pc].kind = "return"
    /\ LET names == Prog[pc].names
       IN  IF {names[k] : k \in 1..Len(names)} \subseteq DOMAIN env
           THEN /\ result' = Reshape([k \in 1..Len(names) |-> env[names[k]]], 3, 3)
                /\ status' = "returned"
                /\ exc' = ""
                /\ first' = IF first = << >> THEN << A, B, result' >> ELSE first
           ELSE /\ status' = "raised"
                /\ exc' = "UnboundLocalError"
                /\ UNCHANGED << result, first >>
    /\ last' = ""
    /\ reads' = {}
    /\ UNCHANGED << A, B, ring, env, pc, nMul, nAdd, calls >>

Next == Unpack \/ Assign \/ Return

Spec == Init /\ [][Next]_vars

\* ---- the driver loop --------------------------------------------------------
\* for _ in range(...): A = ..., B = ...; assert array_equal(kernel(A, B), A @ B)
InitCalls ==
    \E X \in CallMats, Y \in CallMats : Enter(X, Y, "int", 1, << >>)

MainLoop ==
    /\ status = "returned"
    /\ calls < MaxCalls
    /\ IF result = MatMul(A, B, ring)
       THEN \E X \in CallMats, Y \in CallMats :
                /\ A' = X
                /\ B' = Y
                /\ env' = NoFrame
                /\ pc' = 1
                /\ status' = "running"
                /\ exc' = ""
                /\ result' = << >>
                /\ nMul' = 0
                /\ nAdd' = 0
                /\ calls' = calls + 1
       ELSE /\ status' = "raised"
            /\ exc' = "AssertionError"
            /\ UNCHANGED << A, B, env, pc, result, nMul, nAdd, calls >>
    /\ last' = ""
    /\ reads' = {}
    /\ UNCHANGED << ring, first >>

NextCalls == Unpack \/ Assign \/ Return \/ MainLoop

SpecCalls == InitCalls /\ [][NextCalls]_vars

\* ---- the products evaluated out of program order ----------------------------
ToSet(q) == {q[k] : k \in 1..Len(q)}
Names(stmts) == {stmts[k].name : k \in 1..Len(stmts)}
ASet == ToSet(ANames)
BSet == ToSet(BNames)
TNames == Names(PreAddsA)
UNames == Names(PreAddsB)
MNames == Names(Products)
VNames == Names(Aggregates)
OutNames == Names(Outputs)

FirstProduct == 2 + Len(PreAddsA) + Len(PreAddsB) + 1
LastProduct == FirstProduct + Len(Products) - 1

InitSched ==
    \E X \in CallMats, Y \in CallMats : Enter(X, Y, "int", 1, << >>)

\* a product later than the next one in program order is evaluated first
RunAhead ==
    /\ status = "running"
    /\ pc \in FirstProduct..LastProduct
    /\ Cardinality(MNames \cap DOMAIN env) - (pc - FirstProduct) < MaxAhead
    /\ \E k \in (pc + 1)..LastProduct :
           /\ Prog[k].name \notin DOMAIN env
           /\ Exec(k)

NextSched == Unpack \/ Assign \/ RunAhead \/ Return

SpecSched == InitSched /\ [][NextSched]_vars


\* the statement of the program that assigns name n
StmtOf(n) == Prog[CHOOSE k \in 1..Len(Prog) : Prog[k].kind = "assign" /\ Prog[k].name = n]

\* the raw entries an expression depends on, through the terms it reads
RECURSIVE RawReads(_)
RawReads(e) ==
    CASE e.op = "var" -> IF e.name \in ASet \cup BSet THEN {e.name}
                         ELSE RawReads(StmtOf(e.name).expr)
      [] e.op = "neg" -> RawReads(e.x)
      [] OTHER -> RawReads(e.l) \cup RawReads(e.r)

\* the frame after the assignments k..n of the program, run in program order
RECURSIVE RunSeq(_, _, _, _)
RunSeq(f, k, n, r) ==
    IF k > n THEN f
    ELSE LET g == (Prog[k].name :> Eval(Prog[k].expr, f, r)) @@ f
         IN  IF DOMAIN g = {} THEN g ELSE RunSeq(g, k + 1, n, r)  \* g is built first

Count9(X) == Len(Ravel(X)) = 9

\* ---- properties ---------------------------------------------------------------

\* C1: over the integers the returned array equals the naive row-by-column
\* product entry for entry: C[3i+j] = A[3i]*B[j] + A[3i+1]*B[3+j] + A[3i+2]*B[6+j].
KernelEqualsNaive ==
    (status = "returned" /\ ring = "int") =>
        LET a == Ravel(A)
            b == Ravel(B)
            c == Ravel(result)
        IN  \A i \in 0..2, j \in 0..2 :
                c[3 * i + j + 1] = a[3 * i + 1] * b[j + 1] + a[3 * i + 2] * b[3 + j + 1]
                                     + a[3 * i + 3] * b[6 + j + 1]

KernelEqualsNaiveWitness ==
    /\ status = "returned"
    /\ ring = "int"
    /\ A = Seq19
    /\ B = Ones
    /\ result = << <<6, 6, 6>>, <<15, 15, 15>>, <<24, 24, 24>> >>

\* C2: with every +, -, negation and * performed mod Modulus, the returned array
\* equals the naive product reduced mod Modulus, for entries in 0..Modulus-1.
ModularEqualsNaive ==
    (status = "returned" /\ ring = "mod") =>
        LET a == Ravel(A)
            b == Ravel(B)
            c == Ravel(result)
        IN  /\ \A k \in 1..9 : a[k] \in 0..(Modulus - 1) /\ b[k] \in 0..(Modulus - 1)
            /\ \A i \in 0..2, j \in 0..2 :
                c[3 * i + j + 1] = (a[3 * i + 1] * b[j + 1] + a[3 * i + 2] * b[3 + j + 1]
                                     + a[3 * i + 3] * b[6 + j + 1]) % Modulus

ModularEqualsNaiveWitness ==
    /\ status = "returned"
    /\ ring = "mod"
    /\ A = Lift(Seq19, "mod", 1)
    /\ B = Lift(Seq19, "mod", 1)
    /\ result = MatMul(A, B, "mod")
    /\ \E i \in 1..3, j \in 1..3 : Seq19[i][j] # A[i][j]

\* C3: a call that returns has performed exactly 23 scalar multiplications and
\* exactly 60 binary additions / subtractions, 83 operations in total.
OperationCount ==
    (status = "returned") => (nMul = 23 /\ nAdd = 60 /\ nMul + nAdd = 83)

OperationCountWitness ==
    /\ status = "returned"
    /\ nMul = 23
    /\ nAdd = 60
    /\ A = Seq19

DeterministicAndPure ==
    /\ [](status = "returned" /\ first # << >> /\ first[1] = A /\ first[2] = B
            => result = first[3])
    /\ [][status = "running" => (A' = A /\ B' = B)]_vars

DeterministicWitness ==
    /\ status = "returned"
    /\ calls >= 3
    /\ first = << Seq19, Ones, result >>
    /\ A = Seq19
    /\ B = Ones

\* C6: over the integers, a 3x3 A multiplied by the identity is returned unchanged.
RightIdentity ==
    (status = "returned" /\ ring = "int" /\ B = Identity /\ IsShape33(A)) => result = A

RightIdentityWitness ==
    /\ status = "returned"
    /\ ring = "int"
    /\ B = Identity
    /\ A = Seq19
    /\ result = Seq19

\* C7 as stated: no preprocessing term reads another preprocessing term.
PreTermsIndependent ==
    (last \in TNames \cup UNames) => reads \cap (TNames \cup UNames) = {}

\* C7 amended: t0..t3, u0, u1, u3 read only raw entries; t4 reads t1, t5 reads t0
\* and t2, u2 reads u0, u4 reads u3, u5 reads u1 and u2; t-terms read nothing of B
\* and u-terms nothing of A; each term is bound after the terms it reads, and its
\* value is fixed by the raw entries alone.
PreTermDependencies ==
    /\ exc # "UnboundLocalError"
    /\ (last \in TNames) => reads \subseteq ASet \cup TNames
    /\ (last \in UNames) => reads \subseteq BSet \cup UNames
    /\ (last \in TNames \cup UNames) =>
          /\ reads \subseteq DOMAIN env \ {last}
          /\ reads \cap (TNames \cup UNames) =
                CASE last = "t4" -> {"t1"}
                  [] last = "t5" -> {"t0", "t2"}
                  [] last = "u2" -> {"u0"}
                  [] last = "u4" -> {"u3"}
                  [] last = "u5" -> {"u1", "u2"}
                  [] OTHER -> {}
    /\ ("t4" \in DOMAIN env) =>
          env["t4"] = RSub(ring, RSub(ring, env["A7"], env["A4"]), env["A5"])
    /\ ("t5" \in DOMAIN env) =>
          env["t5"] = RAdd(ring, RAdd(ring, RSub(ring, env["A0"], env["A3"]), env["A6"]),
                           env["A8"])
    /\ ("u2" \in DOMAIN env) =>
          env["u2"] = RSub(ring, RAdd(ring, env["B1"], env["B0"]), env["B2"])
    /\ ("u4" \in DOMAIN env) =>
          env["u4"] = RSub(ring, RAdd(ring, env["B6"], env["B5"]), env["B8"])
    /\ ("u5" \in DOMAIN env) =>
          env["u5"] = RAdd(ring, RSub(ring, env["B4"], env["B7"]),
                           RSub(ring, RAdd(ring, env["B1"], env["B0"]), env["B2"]))

PreTermDependenciesWitness ==
    /\ last = "u5"
    /\ reads = {"u1", "u2"}
    /\ status = "running"
    /\ ring = "int"
    /\ B = Seq19
    /\ env["u5"] = 2 + 1 - 3 + 5 - 8

\* C8: no product reads a product, an aggregate or an output; each reads only raw
\* entries and the terms t0..t5, u0..u5, so once preprocessing is complete the
\* products take the values of the program-order run in whatever order they run.
ProductsIndependent ==
    /\ exc # "UnboundLocalError"
    /\ (last \in MNames) =>
          /\ reads \subseteq ASet \cup BSet \cup TNames \cup UNames
          /\ TNames \cup UNames \subseteq DOMAIN env
    /\ (Count9(A) /\ Count9(B) /\ MNames \cap DOMAIN env # {}) =>
          LET f == RunSeq([n \in ASet \cup BSet |-> env[n]], 3, LastProduct, ring)
          IN  \A n \in MNames \cap DOMAIN env : env[n] = f[n]

ProductsIndependentWitness ==
    /\ status = "running"
    /\ last = "M22"
    /\ pc = FirstProduct
    /\ MNames \cap DOMAIN env = {"M22"}
    /\ A = Seq19
    /\ B = Seq19
    /\ env["M22"] = 4 * (2 + 5 - 8)

\* C9: v0, v1, v2 read only products; each of v3..v8 reads only products and
\* aggregates of smaller index; each output reads only products and aggregates;
\* every aggregate and output is computed after all it reads, and no term or
\* product reads an aggregate or an output.
AggregateOrder ==
    /\ exc # "UnboundLocalError"
    /\ (last \in {"v0", "v1", "v2"}) => reads \subseteq MNames
    /\ \A k \in 1..Len(Aggregates) :
          (last = Aggregates[k].name) =>
              reads \subseteq MNames \cup {Aggregates[j].name : j \in 1..(k - 1)}
    /\ (last \in OutNames) => reads \subseteq MNames \cup VNames
    /\ (last \in VNames \cup OutNames) => reads \subseteq DOMAIN env \ {last}
    /\ (last \in TNames \cup UNames \cup MNames) =>
          reads \cap (VNames \cup OutNames) = {}

AggregateOrderWitness ==
    /\ status = "running"
    /\ last = "v8"
    /\ reads = {"v4", "v7"}
    /\ A = Seq19
    /\ B = Seq19
    /\ ring = "int"

\* C10: in every product the left factor is a linear combination of entries of A
\* only and the right factor one of entries of B only, and over 2x2 blocks, which
\* do not commute, the returned array is the product with every term written
\* A-entry times B-entry.
LeftARightB ==
    /\ (last \in MNames) =>
          LET e == StmtOf(last).expr
          IN  /\ e.op = "mul"
              /\ CountMul(e.l) = 0 /\ CountMul(e.r) = 0
              /\ RawReads(e.l) \subseteq ASet
              /\ RawReads(e.r) \subseteq BSet
    /\ (status = "returned" /\ ring = "mat2") =>
          LET a == Ravel(A)
              b == Ravel(B)
              c == Ravel(result)
          IN  \A i \in 0..2, j \in 0..2 :
                c[3 * i + j + 1] =
                    RAdd("mat2", RAdd("mat2", RMul("mat2", a[3 * i + 1], b[j + 1]),
                                      RMul("mat2", a[3 * i + 2], b[3 + j + 1])),
                         RMul("mat2", a[3 * i + 3], b[6 + j + 1]))

LeftARightBWitness ==
    /\ status = "returned"
    /\ ring = "mat2"
    /\ A = Lift(Seq19, "mat2", <<0, 1, 0, 0>>)
    /\ B = Lift(Ones, "mat2", <<0, 0, 1, 0>>)
    /\ result[1][1] = <<6, 0, 0, 0>>
    /\ RMul("mat2", B[1][1], A[1][1]) = <<0, 0, 0, 1>>

====
